---- MODULE Spec2Model ----
(***************************************************************************)
(* Model of the OpenSpec task parser (svao/orchestrator/parser.py) and of  *)
(* the dependency inference engine (svao/orchestrator/inference.py).       *)
(*                                                                         *)
(* A document is a sequence of lines.  A line is given by what the two     *)
(* compiled patterns of parse_tasks_md capture on it: a section header     *)
(* (groups num, name) or a task line (groups box, id, desc, files,         *)
(* depends, agent, complexity; an optional group that did not take part    *)
(* in the match is None).  Every captured group is the raw string; all     *)
(* conversions on it (int, split, strip, lower, the stem and keyword       *)
(* extraction, the identifier parse) are computed on the characters.       *)
(***************************************************************************)
EXTENDS Integers, Sequences, FiniteSets, TLC

VARIABLES
    content,               \* the document handed to parse_tasks_md
    pc,                    \* how far the pipeline got
    sections,              \* ParseResult.sections
    errors,                \* ParseResult.errors, extended by main
    warnings,              \* ParseResult.warnings
    confidence_threshold,  \* argument of infer_dependencies
    hash_order,            \* iteration order of a set of category names
    all_deps,              \* the pooled candidates of infer_dependencies
    result                 \* what infer_dependencies ended in

vars == <<content, pc, sections, errors, warnings, confidence_threshold,
          hash_order, all_deps, result>>

\* Longest document, in lines.
MaxLines == 4

\* match.group(n) of an optional group that did not participate.
None == "<None>"

-----------------------------------------------------------------------------
(* str / re primitives *)

Char(s, i) == SubSeq(s, i, i)

Digits == "0123456789"
LowerLetters == "abcdefghijklmnopqrstuvwxyz"
UpperLetters == "ABCDEFGHIJKLMNOPQRSTUVWXYZ"

\* str.find of a single character: 1-based position, 0 when absent.
IndexIn(c, alphabet) ==
    IF \E i \in 1..Len(alphabet) : Char(alphabet, i) = c
    THEN CHOOSE i \in 1..Len(alphabet) :
            /\ Char(alphabet, i) = c
            /\ \A j \in 1..(i - 1) : Char(alphabet, j) # c
    ELSE 0

IsDigit(c) == IndexIn(c, Digits) > 0
IsLowerLetter(c) == IndexIn(c, LowerLetters) > 0

RECURSIVE Lower(_)
\* str.lower()
Lower(s) ==
    IF s = "" THEN ""
    ELSE LET c == Char(s, 1)
             u == IndexIn(c, UpperLetters)
         IN (IF u > 0 THEN Char(LowerLetters, u) ELSE c)
              \o Lower(SubSeq(s, 2, Len(s)))

IsSpace(c) == c \in {" ", "\t", "\n", "\r"}

RECURSIVE LStrip(_)
LStrip(s) ==
    IF s # "" /\ IsSpace(Char(s, 1)) THEN LStrip(SubSeq(s, 2, Len(s))) ELSE s

RECURSIVE RStrip(_)
RStrip(s) ==
    IF s # "" /\ IsSpace(Char(s, Len(s)))
    THEN RStrip(SubSeq(s, 1, Len(s) - 1)) ELSE s

\* str.strip()
Strip(s) == RStrip(LStrip(s))

RECURSIVE SplitFrom(_, _, _, _)
SplitFrom(s, sep, start, i) ==
    IF i > Len(s) THEN <<SubSeq(s, start, Len(s))>>
    ELSE IF Char(s, i) = sep
         THEN <<SubSeq(s, start, i - 1)>> \o SplitFrom(s, sep, i + 1, i + 1)
         ELSE SplitFrom(s, sep, start, i + 1)

\* str.split(sep) for a one-character separator
Split(s, sep) == SplitFrom(s, sep, 1, 1)

\* number of leading decimal digits of s: the match of ^(\d+)
RECURSIVE DigitRun(_)
DigitRun(s) ==
    IF s # "" /\ IsDigit(Char(s, 1)) THEN 1 + DigitRun(SubSeq(s, 2, Len(s)))
    ELSE 0

RECURSIVE ToInt(_)
\* int() of a string of decimal digits
ToInt(s) ==
    IF s = "" THEN 0
    ELSE 10 * ToInt(SubSeq(s, 1, Len(s) - 1))
           + (IndexIn(Char(s, Len(s)), Digits) - 1)

RECURSIVE ToStr(_)
\* str() of a non-negative int
ToStr(n) ==
    IF n < 10 THEN Char(Digits, n + 1)
    ELSE ToStr(n \div 10) \o Char(Digits, (n % 10) + 1)

\* word in s
Contains(s, word) ==
    \E i \in 1..(Len(s) - Len(word) + 1) :
        SubSeq(s, i, i + Len(word) - 1) = word

EndsWith(s, suffix) ==
    /\ Len(s) >= Len(suffix)
    /\ SubSeq(s, Len(s) - Len(suffix) + 1, Len(s)) = suffix

RECURSIVE JoinDot(_)
\* '.'.join(str(p) for p in parts)
JoinDot(parts) ==
    IF parts = <<>> THEN ""
    ELSE IF Len(parts) = 1 THEN ToStr(parts[1])
    ELSE ToStr(parts[1]) \o "." \o JoinDot(Tail(parts))

RECURSIVE Concat(_)
\* list.extend over a list of lists
Concat(ss) == IF ss = <<>> THEN <<>> ELSE Head(ss) \o Concat(Tail(ss))

Range(s) == {s[i] : i \in 1..Len(s)}

RECURSIVE Uniq(_)
\* the keys of a dict in insertion order: first occurrences, in order
Uniq(s) ==
    IF s = <<>> THEN <<>>
    ELSE LET init == Uniq(SubSeq(s, 1, Len(s) - 1))
             x == s[Len(s)]
         IN IF x \in Range(init) THEN init ELSE Append(init, x)

-----------------------------------------------------------------------------
(* Documents *)

SectionLine(num, name) ==
    [kind |-> "section", num |-> num, name |-> name]

TaskLine(box, id, desc, files, depends, agent, complexity) ==
    [kind |-> "task", box |-> box, id |-> id, desc |-> desc, files |-> files,
     depends |-> depends, agent |-> agent, complexity |-> complexity]

\* The lines documents are made of.
LinePool ==
    { SectionLine("1", "Setup"),
      SectionLine("2", "Build "),
      TaskLine(" ", "1.1", "Add schema types",
               "src/index.ts, test/index.ts", None, None, None),
      TaskLine("x", "1.1.1", "Create list view",
               "lib/Index.tsx", "1.1", "ui ", "HIGH "),
      TaskLine(" ", "1.2", "Add mutation",
               None, "1.1, 9.9", None, "urgent"),
      TaskLine(" ", "1.2a", "Write tests",
               "user.py", "2.1", "qa", "Medium"),
      TaskLine("x", "2.1", "Build widget",
               "User.go", None, None, "low") }

RECURSIVE SeqsUpTo(_, _)
SeqsUpTo(S, n) ==
    IF n = 0 THEN {<<>>}
    ELSE LET shorter == SeqsUpTo(S, n - 1)
         IN shorter \cup {Append(s, x) : s \in shorter, x \in S}

Documents == SeqsUpTo(LinePool, MaxLines)

\* The strings that occur in documents: the conversions of the inference
\* engine are tabulated over them once (SortKeyOf, SubsectionKeyOf, StemOf,
\* KeywordsOf below), each table being the function itself on these inputs.
PoolTasks == {l \in LinePool : l.kind = "task"}
PoolIds == {l.id : l \in PoolTasks}

-----------------------------------------------------------------------------
(* Identifier model: inference.py *)

\* One dot-separated part of an ID: <<took part, number, letter>>.
\* ^(\d+)([a-z]?)$ on the whole part, else the leading digits ^(\d+), else
\* the part is skipped.
ParsePart(part) ==
    LET d == DigitRun(part)
        full == /\ d >= 1
                /\ \/ Len(part) = d
                   \/ Len(part) = d + 1 /\ IsLowerLetter(Char(part, d + 1))
    IN IF full THEN <<TRUE, ToInt(SubSeq(part, 1, d)), SubSeq(part, d + 1, Len(part))>>
       ELSE IF d >= 1 THEN <<TRUE, ToInt(SubSeq(part, 1, d)), "">>
       ELSE <<FALSE, 0, "">>

RECURSIVE ParseParts(_)
\* the loop of parse_task_id over the parts, last part last
ParseParts(parts) ==
    IF parts = <<>> THEN [parts |-> <<>>, suffix |-> ""]
    ELSE LET before == ParseParts(SubSeq(parts, 1, Len(parts) - 1))
             p == ParsePart(parts[Len(parts)])
         IN IF p[1]
            THEN [parts |-> Append(before.parts, p[2]),
                  suffix |-> IF p[3] # "" THEN p[3] ELSE before.suffix]
            ELSE before

parse_task_id(task_id) == ParseParts(Split(task_id, "."))

\* (*parts, suffix): the tuple is kept as its integer elements followed by
\* one string element.
task_id_sort_key(task_id) == parse_task_id(task_id)

\* str < str for the suffixes ("" or one lowercase letter)
StrLess(a, b) == IndexIn(a, LowerLetters) < IndexIn(b, LowerLetters)

RECURSIVE TupleCmp(_, _, _)
\* Python's tuple comparison k1 < k2 from element i on: the first position
\* where the elements are unequal decides, and ordering an int against a
\* str there raises TypeError; with no such position the shorter is less.
TupleCmp(k1, k2, i) ==
    LET n1 == Len(k1.parts) + 1
        n2 == Len(k2.parts) + 1
    IN IF i > n1 \/ i > n2
       THEN (IF n1 < n2 THEN "lt" ELSE IF n1 = n2 THEN "eq" ELSE "gt")
       ELSE IF i < n1 /\ i < n2
            THEN IF k1.parts[i] = k2.parts[i] THEN TupleCmp(k1, k2, i + 1)
                 ELSE IF k1.parts[i] < k2.parts[i] THEN "lt" ELSE "gt"
       ELSE IF i = n1 /\ i = n2
            THEN IF k1.suffix = k2.suffix THEN "eq"
                 ELSE IF StrLess(k1.suffix, k2.suffix) THEN "lt" ELSE "gt"
       ELSE "TypeError"

SortKeyOf == [id \in PoolIds |-> task_id_sort_key(id)]

KeyCmp(a, b) == TupleCmp(SortKeyOf[a], SortKeyOf[b], 1)

\* dep_key < task_key, where it is defined
KeyLess(a, b) == KeyCmp(a, b) = "lt"

Incomparable(a, b) == KeyCmp(a, b) = "TypeError"

\* sorted(ids, key=task_id_sort_key) raises.  Two keys are incomparable
\* only when they agree on every leading integer and one tuple holds its
\* suffix where the other holds an integer; every other element of the list
\* is then below both or above both, so no comparison sort can place the
\* two without comparing them.
SortRaises(ids) ==
    \E i, j \in 1..Len(ids) : i < j /\ Incomparable(ids[i], ids[j])

RECURSIVE InsertSorted(_, _)
\* x goes after every element that is not greater: the sort is stable
InsertSorted(sorted, x) ==
    IF sorted = <<>> THEN <<x>>
    ELSE IF KeyLess(x, sorted[Len(sorted)])
         THEN Append(InsertSorted(SubSeq(sorted, 1, Len(sorted) - 1), x),
                     sorted[Len(sorted)])
         ELSE Append(sorted, x)

RECURSIVE SortedIds(_)
\* sorted(ids, key=task_id_sort_key), for a list on which it does not raise
SortedIds(ids) ==
    IF ids = <<>> THEN <<>>
    ELSE InsertSorted(SortedIds(SubSeq(ids, 1, Len(ids) - 1)), ids[Len(ids)])

get_subsection_key(task_id) ==
    LET parts == parse_task_id(task_id).parts
    IN IF Len(parts) >= 2 THEN JoinDot(SubSeq(parts, 1, Len(parts) - 1))
       ELSE IF parts # <<>> THEN ToStr(parts[1]) ELSE ""

SubsectionKeyOf == [id \in PoolIds |-> get_subsection_key(id)]

Extensions == <<"ts", "tsx", "js", "jsx", "vue", "py", "go">>

extract_stem(filepath) ==
    LET segs == Split(filepath, "/")
        name == segs[Len(segs)]
        hit == {i \in 1..Len(Extensions) : EndsWith(name, "." \o Extensions[i])}
        cut == IF hit = {} THEN name
               ELSE LET i == CHOOSE i \in hit : TRUE
                    IN SubSeq(name, 1, Len(name) - Len(Extensions[i]) - 1)
    IN Lower(cut)

\* the entries of a comma-separated annotation: split(','), each stripped
Entries(group) ==
    LET parts == Split(group, ",") IN [i \in 1..Len(parts) |-> Strip(parts[i])]

PoolFiles ==
    UNION {Range(Entries(l.files)) : l \in {t \in PoolTasks : t.files # None}}

StemOf == [f \in PoolFiles |-> extract_stem(f)]

\* patterns, in the order the dict literal lists them
Patterns ==
    << [category |-> "schema",    words |-> <<"schema", "model", "table", "entity">>],
       [category |-> "type",      words |-> <<"type", "interface", "typedef">>],
       [category |-> "mutation",  words |-> <<"mutation", "create", "update", "delete", "write">>],
       [category |-> "query",     words |-> <<"query", "read", "fetch", "get", "list">>],
       [category |-> "component", words |-> <<"component", "view", "page", "ui">>],
       [category |-> "test",      words |-> <<"test", "spec", "coverage">>],
       [category |-> "api",       words |-> <<"api", "endpoint", "route", "handler">>] >>

extract_keywords(description) ==
    LET desc_lower == Lower(description)
    IN {Patterns[i].category : i \in
          {i \in 1..Len(Patterns) :
              \E w \in 1..Len(Patterns[i].words) :
                  Contains(desc_lower, Patterns[i].words[w])}}

KeywordsOf == [d \in {Strip(l.desc) : l \in PoolTasks} |-> extract_keywords(d)]

\* keyword_deps.get(kw, [])
keyword_deps(kw) ==
    CASE kw = "mutation"  -> <<"schema", "type">>
      [] kw = "query"     -> <<"schema", "type">>
      [] kw = "component" -> <<"type", "query", "mutation">>
      [] kw = "test"      -> <<>>
      [] kw = "api"       -> <<"schema", "type">>
      [] OTHER            -> <<>>

-----------------------------------------------------------------------------
(* parser.py *)

Truthy(group) == group # None /\ group # ""

Complexities == {"low", "medium", "high"}

\* A slip of "Parse complexity": the invalid value is reported but kept.
ParseComplexityUncoerced(task_id, group) ==
    LET given == IF Truthy(group) THEN Lower(Strip(group)) ELSE None
    IN IF Truthy(group)
       THEN IF given \notin Complexities
            THEN [complexity |-> given,
                  warnings |-> <<"Task " \o task_id \o " has invalid complexity '"
                                  \o given \o "', using 'medium'">>]
            ELSE [complexity |-> given, warnings |-> <<>>]
       ELSE [complexity |-> "medium", warnings |-> <<>>]

\* "Parse complexity": the Task's complexity and the warnings appended
ParseComplexity(task_id, group) ==
    LET given == IF Truthy(group) THEN Lower(Strip(group)) ELSE None
    IN IF Truthy(group)
       THEN IF given \notin Complexities
            THEN [complexity |-> "medium",
                  warnings |-> <<"Task " \o task_id \o " has invalid complexity '"
                                  \o given \o "', using 'medium'">>]
            ELSE [complexity |-> given, warnings |-> <<>>]
       ELSE [complexity |-> "medium", warnings |-> <<>>]

\* The body of the task loop for one match: the Task, and what it appends
\* to errors and to warnings.
ParseTask(m, section_num) ==
    LET task_id == m.id
        task_section == ToInt(Split(task_id, ".")[1])
        errs == IF task_section # section_num
                THEN <<"Task " \o task_id \o " in section " \o ToStr(section_num)
                        \o " should start with '" \o ToStr(section_num) \o ".'">>
                ELSE <<>>
        files == IF Truthy(m.files) THEN Entries(m.files) ELSE <<>>
        warnFiles == IF Truthy(m.files) THEN <<>>
                     ELSE <<"Task " \o task_id \o " missing (files: ...) annotation"
                             \o " - agent routing may be less accurate">>
        depends_on == IF Truthy(m.depends) THEN Entries(m.depends)
                      ELSE <<>>
        cx == ParseComplexity(task_id, m.complexity)
    IN [task |-> [id |-> task_id,
                  description |-> Strip(m.desc),
                  files |-> files,
                  depends_on |-> depends_on,
                  agent_type |-> IF Truthy(m.agent) THEN Strip(m.agent) ELSE None,
                  complexity |-> cx.complexity,
                  completed |-> (m.box = "x")],
        errors |-> errs,
        warnings |-> warnFiles \o cx.warnings]

\* positions of the section headers: section_pattern.finditer(content)
SectionMatches(doc) == {i \in 1..Len(doc) : doc[i].kind = "section"}

\* end of the section_content of the header at h: the next header or the end
SectionEnd(doc, h) ==
    IF \E j \in SectionMatches(doc) : j > h
    THEN CHOOSE j \in SectionMatches(doc) :
            j > h /\ \A k \in SectionMatches(doc) : k > h => j <= k
    ELSE Len(doc) + 1

RECURSIVE ParseTasksFailFast(_, _, _, _)
\* A fail-fast task loop: the first task that records an error is dropped
\* and ends the loop.
ParseTasksFailFast(doc, i, last, section_num) ==
    IF i > last THEN [tasks |-> <<>>, errors |-> <<>>, warnings |-> <<>>]
    ELSE IF doc[i].kind # "task"
         THEN ParseTasksFailFast(doc, i + 1, last, section_num)
    ELSE LET t == ParseTask(doc[i], section_num)
         IN IF t.errors # <<>>
            THEN [tasks |-> <<>>, errors |-> t.errors, warnings |-> <<>>]
            ELSE LET rest == ParseTasksFailFast(doc, i + 1, last, section_num)
                 IN [tasks |-> <<t.task>> \o rest.tasks,
                     errors |-> rest.errors,
                     warnings |-> t.warnings \o rest.warnings]

RECURSIVE ParseTasks(_, _, _, _)
\* task_pattern.finditer over the lines i..last of one section
ParseTasks(doc, i, last, section_num) ==
    IF i > last THEN [tasks |-> <<>>, errors |-> <<>>, warnings |-> <<>>]
    ELSE LET rest == ParseTasks(doc, i + 1, last, section_num)
         IN IF doc[i].kind # "task" THEN rest
            ELSE LET t == ParseTask(doc[i], section_num)
                 IN [tasks |-> <<t.task>> \o rest.tasks,
                     errors |-> t.errors \o rest.errors,
                     warnings |-> t.warnings \o rest.warnings]

\* One iteration of the loop over section_matches, for the header at h.
ParseSection(doc, h) ==
    LET section_num == ToInt(doc[h].num)
        section_name == Strip(doc[h].name)
        body == ParseTasks(doc, h + 1, SectionEnd(doc, h) - 1, section_num)
        empty == IF body.tasks = <<>>
                 THEN <<"Section " \o ToStr(section_num) \o " '" \o section_name
                         \o "' has no tasks">>
                 ELSE <<>>
    IN [section |-> [number |-> section_num, name |-> section_name,
                     tasks |-> body.tasks],
        errors |-> body.errors,
        warnings |-> body.warnings \o empty]

RECURSIVE ParseSections(_, _)
ParseSections(doc, i) ==
    IF i > Len(doc) THEN [sections |-> <<>>, errors |-> <<>>, warnings |-> <<>>]
    ELSE LET rest == ParseSections(doc, i + 1)
         IN IF doc[i].kind # "section" THEN rest
            ELSE LET s == ParseSection(doc, i)
                 IN [sections |-> <<s.section>> \o rest.sections,
                     errors |-> s.errors \o rest.errors,
                     warnings |-> s.warnings \o rest.warnings]

NoSectionsError == "No sections found. Expected format: '## 1. Section Name'"

parse_tasks_md(doc) ==
    IF SectionMatches(doc) = {}
    THEN [sections |-> <<>>, errors |-> <<NoSectionsError>>, warnings |-> <<>>]
    ELSE ParseSections(doc, 1)

\* all_tasks of infer_dependencies, and the iteration order of
\* validate_dependencies: the tasks of all sections, in order
AllTasks(secs) == Concat([i \in 1..Len(secs) |-> secs[i].tasks])

TaskIds(tasks) == [i \in 1..Len(tasks) |-> tasks[i].id]

RECURSIVE UnknownDeps(_, _, _)
UnknownDeps(task, all_task_ids, i) ==
    IF i > Len(task.depends_on) THEN <<>>
    ELSE (IF task.depends_on[i] \notin all_task_ids
          THEN <<"Task " \o task.id \o " depends on unknown task '"
                  \o task.depends_on[i] \o "'">>
          ELSE <<>>) \o UnknownDeps(task, all_task_ids, i + 1)

validate_dependencies(secs) ==
    LET tasks == AllTasks(secs)
        all_task_ids == Range(TaskIds(tasks))
    IN Concat([i \in 1..Len(tasks) |-> UnknownDeps(tasks[i], all_task_ids, 1)])

-----------------------------------------------------------------------------
(* inference.py: the four strategies *)

InferredDependency(from_task, to_task, confidence, reason) ==
    [from |-> from_task, to |-> to_task, confidence |-> confidence,
     reason |-> reason]

SubsectionConfidence == 90
FilePatternConfidence == 85
KeywordConfidence == 50
SectionOrderConfidence == 25

\* subsection_tasks: the subsection keys in insertion order, and the list of one
SubsectionKeys(tasks) ==
    Uniq([i \in 1..Len(tasks) |-> SubsectionKeyOf[tasks[i].id]])

SubsectionTaskIds(tasks, subsection) ==
    SelectSeq(TaskIds(tasks), LAMBDA id : SubsectionKeyOf[id] = subsection)

\* A slip of the index: each task depends on the first of the sorted list.
SequentialDepsOnFirst(subsection, task_ids) ==
    IF Len(task_ids) < 2 THEN <<>>
    ELSE LET sorted_ids == SortedIds(task_ids)
         IN [i \in 1..(Len(sorted_ids) - 1) |->
               InferredDependency(sorted_ids[i + 1], sorted_ids[1],
                   SubsectionConfidence,
                   "subsection order: sequential within " \o subsection)]

\* "Each task depends on the previous one", for one subsection
SequentialDeps(subsection, task_ids) ==
    IF Len(task_ids) < 2 THEN <<>>
    ELSE LET sorted_ids == SortedIds(task_ids)
         IN [i \in 1..(Len(sorted_ids) - 1) |->
               InferredDependency(sorted_ids[i + 1], sorted_ids[i],
                   SubsectionConfidence,
                   "subsection order: sequential within " \o subsection)]

infer_from_subsection_order(tasks) ==
    LET keys == SubsectionKeys(tasks)
    IN Concat([k \in 1..Len(keys) |->
                 SequentialDeps(keys[k], SubsectionTaskIds(tasks, keys[k]))])

SubsectionOrderRaises(tasks) ==
    \E k \in Range(SubsectionKeys(tasks)) :
        /\ Len(SubsectionTaskIds(tasks, k)) >= 2
        /\ SortRaises(SubsectionTaskIds(tasks, k))

\* the (stem, task id) pairs in the order the mapping loop meets them
StemEntries(tasks) ==
    Concat([t \in 1..Len(tasks) |->
              [f \in 1..Len(tasks[t].files) |->
                  <<StemOf[tasks[t].files[f]], tasks[t].id>>]])

Stems(tasks) ==
    LET e == StemEntries(tasks) IN Uniq([i \in 1..Len(e) |-> e[i][1]])

\* stem_to_task[stem]
StemTaskIds(tasks, stem) ==
    LET e == SelectSeq(StemEntries(tasks), LAMBDA p : p[1] = stem)
    IN [i \in 1..Len(e) |-> e[i][2]]

\* the group counts when it holds more than one entry
SharedStem(task_ids) == Len(task_ids) > 1

\* every later task of the sorted list depends on every earlier one
FanInDeps(stem, task_ids) ==
    IF ~SharedStem(task_ids) THEN <<>>
    ELSE LET sorted_ids == SortedIds(task_ids)
         IN Concat([i \in 1..(Len(sorted_ids) - 1) |->
                [j \in 1..i |->
                   InferredDependency(sorted_ids[i + 1], sorted_ids[j],
                       FilePatternConfidence,
                       "file pattern: shared stem '" \o stem \o "'")]])

infer_from_file_patterns(tasks) ==
    LET stems == Stems(tasks)
    IN Concat([k \in 1..Len(stems) |->
                 FanInDeps(stems[k], StemTaskIds(tasks, stems[k]))])

FilePatternsRaise(tasks) ==
    \E stem \in Range(Stems(tasks)) :
        /\ SharedStem(StemTaskIds(tasks, stem))
        /\ SortRaises(StemTaskIds(tasks, stem))

\* task_keywords[task_id]: the entry the last task with that id wrote
TaskKeywords(tasks, task_id) ==
    LET last == CHOOSE i \in 1..Len(tasks) :
                   /\ tasks[i].id = task_id
                   /\ \A j \in 1..Len(tasks) : tasks[j].id = task_id => j <= i
    IN KeywordsOf[tasks[last].description]

\* keyword_to_tasks.get(kw): empty when kw is no key
KeywordToTasks(tasks, kw) ==
    TaskIds(SelectSeq(tasks, LAMBDA t : kw \in KeywordsOf[t.description]))

\* "for kw in task_kws": a set of str is iterated in an order the process's
\* string hashing fixes; order is that order, over all categories.
IterSet(set, order) == SelectSeq(order, LAMBDA kw : kw \in set)

\* the dependencies the inner loop over keyword_to_tasks[req_kw] appends
KeywordDepsFor(tasks, task, kw, req_kw) ==
    LET deps == SelectSeq(KeywordToTasks(tasks, req_kw),
                    LAMBDA dep_task_id :
                        /\ dep_task_id # task.id
                        /\ KeyLess(dep_task_id, task.id))
    IN [d \in 1..Len(deps) |->
          InferredDependency(task.id, deps[d], KeywordConfidence,
              "keyword: '" \o kw \o "' typically depends on '" \o req_kw \o "'")]

KeywordDepsOfTask(tasks, task, order) ==
    LET kws == IterSet(TaskKeywords(tasks, task.id), order)
    IN Concat([k \in 1..Len(kws) |->
          Concat([r \in 1..Len(keyword_deps(kws[k])) |->
              KeywordDepsFor(tasks, task, kws[k], keyword_deps(kws[k])[r])])])

infer_from_keywords(tasks, order) ==
    Concat([t \in 1..Len(tasks) |-> KeywordDepsOfTask(tasks, tasks[t], order)])

KeywordsRaise(tasks) ==
    \E t \in 1..Len(tasks) :
      \E kw \in TaskKeywords(tasks, tasks[t].id) :
        \E r \in 1..Len(keyword_deps(kw)) :
          \E dep_task_id \in Range(KeywordToTasks(tasks, keyword_deps(kw)[r])) :
             /\ dep_task_id # tasks[t].id
             /\ Incomparable(dep_task_id, tasks[t].id)

SectionOrderDep(prev_section, section) ==
    IF prev_section.tasks # <<>> /\ section.tasks # <<>>
    THEN <<InferredDependency(section.tasks[1].id,
              prev_section.tasks[Len(prev_section.tasks)].id,
              SectionOrderConfidence,
              "section order: section " \o ToStr(section.number)
                 \o " after section " \o ToStr(prev_section.number))>>
    ELSE <<>>

infer_from_section_order(secs) ==
    Concat([i \in 1..(Len(secs) - 1) |-> SectionOrderDep(secs[i], secs[i + 1])])

-----------------------------------------------------------------------------
(* inference.py: infer_dependencies *)

\* The declared depends_on of every task, fed in as certain edges.
DeclaredDeps(tasks) ==
    Concat([t \in 1..Len(tasks) |->
              [d \in 1..Len(tasks[t].depends_on) |->
                  InferredDependency(tasks[t].id, tasks[t].depends_on[d], 100,
                      "declared: depends_on")]])

CollectAllWithDeclared(secs, order) ==
    DeclaredDeps(AllTasks(secs))
      \o infer_from_subsection_order(AllTasks(secs))
      \o infer_from_file_patterns(AllTasks(secs))
      \o infer_from_keywords(AllTasks(secs), order)
      \o infer_from_section_order(secs)

\* "Collect all inferences"
CollectAll(secs, order) ==
    infer_from_subsection_order(AllTasks(secs))
      \o infer_from_file_patterns(AllTasks(secs))
      \o infer_from_keywords(AllTasks(secs), order)
      \o infer_from_section_order(secs)

\* a comparison of two sort keys raises TypeError in one of the strategies
Raises(secs) ==
    \/ SubsectionOrderRaises(AllTasks(secs))
    \/ FilePatternsRaise(AllTasks(secs))
    \/ KeywordsRaise(AllTasks(secs))

SameKey(d, e) == d.from = e.from /\ d.to = e.to

\* A slip of the comparison: a candidate of equal confidence replaces too.
ReplacesOnTie(dep, kept) == dep.confidence >= kept.confidence

\* dep replaces the entry its key already has
Replaces(dep, kept) == dep.confidence > kept.confidence

\* unique_deps after one more dep; a replaced value keeps its key's place
Put(unique_deps, dep) ==
    IF \E i \in 1..Len(unique_deps) : SameKey(unique_deps[i], dep)
    THEN [i \in 1..Len(unique_deps) |->
            IF SameKey(unique_deps[i], dep) /\ Replaces(dep, unique_deps[i])
            THEN dep ELSE unique_deps[i]]
    ELSE Append(unique_deps, dep)

RECURSIVE Deduplicate(_)
\* unique_deps.values() after the loop over all_deps
Deduplicate(deps) ==
    IF deps = <<>> THEN <<>>
    ELSE Put(Deduplicate(SubSeq(deps, 1, Len(deps) - 1)), deps[Len(deps)])

\* A slip of the comparison: confidence equal to the threshold is held back.
AutoAppliesAbove(dep, threshold) == dep.confidence > threshold

AutoApplies(dep, threshold) == dep.confidence >= threshold

Categorize(unique_deps, threshold) ==
    [auto_apply |->
        SelectSeq(unique_deps, LAMBDA d : AutoApplies(d, threshold)),
     pending_review |->
        SelectSeq(unique_deps, LAMBDA d : ~AutoApplies(d, threshold))]

\* What a call ends in: the TypeError it raises, or the dict it returns.
Raised == [status |-> "TypeError", auto_apply |-> <<>>, pending_review |-> <<>>]

Returned(c) ==
    [status |-> "returned", auto_apply |-> c.auto_apply,
     pending_review |-> c.pending_review]

infer_dependencies(parsed_sections, threshold, order) ==
    IF Raises(parsed_sections) THEN Raised
    ELSE Returned(Categorize(Deduplicate(CollectAll(parsed_sections, order)),
                             threshold))

-----------------------------------------------------------------------------
(* The pipeline: parse, validate, infer *)

DefaultThreshold == 70

\* thresholds infer_dependencies is called with
Thresholds == {DefaultThreshold, SubsectionConfidence}

Categories == <<"schema", "type", "mutation", "query", "component", "test", "api">>

Reverse(s) == [i \in 1..Len(s) |-> s[Len(s) + 1 - i]]

\* set iteration orders tried
HashOrders == {Categories, Reverse(Categories)}

NoResult == [status |-> "none", auto_apply |-> <<>>, pending_review |-> <<>>]

Init ==
    /\ content \in Documents
    /\ pc = "start"
    /\ sections = <<>>
    /\ errors = <<>>
    /\ warnings = <<>>
    /\ confidence_threshold = DefaultThreshold
    /\ hash_order = Categories
    /\ all_deps = <<>>
    /\ result = NoResult

\* result = parse_tasks_md(content)
Parse ==
    /\ pc = "start"
    /\ LET r == parse_tasks_md(content)
       IN /\ sections' = r.sections
          /\ errors' = r.errors
          /\ warnings' = r.warnings
    /\ pc' = "parsed"
    /\ UNCHANGED <<content, confidence_threshold, hash_order, all_deps, result>>

\* result.errors.extend(validate_dependencies(result.sections))
Validate ==
    /\ pc = "parsed"
    /\ errors' = errors \o validate_dependencies(sections)
    /\ pc' = "validated"
    /\ UNCHANGED <<content, sections, warnings, confidence_threshold,
                   hash_order, all_deps, result>>

\* infer_dependencies({"sections": sections}, t)
Infer(t, order) ==
    /\ pc = "validated"
    /\ confidence_threshold' = t
    /\ hash_order' = order
    /\ LET raises == Raises(sections)
           deps == IF raises THEN <<>> ELSE CollectAll(sections, order)
       IN /\ all_deps' = deps
          /\ result' = IF raises THEN Raised
                       ELSE Returned(Categorize(Deduplicate(deps), t))
    /\ pc' = "inferred"
    /\ UNCHANGED <<content, sections, errors, warnings>>

Next ==
    \/ Parse
    \/ Validate
    \/ \E t \in Thresholds, order \in HashOrders : Infer(t, order)

Spec == Init /\ [][Next]_vars

-----------------------------------------------------------------------------
(* Properties *)

CallReturned == pc = "inferred" /\ result.status = "returned"

\* unique_deps.values(), as far as the two buckets tell
Merged == result.auto_apply \o result.pending_review

Output == Range(Merged)

Tasks == AllTasks(sections)

Ids == Range(TaskIds(Tasks))

HasPrefix(str, prefix) == SubSeq(str, 1, Len(prefix)) = prefix

\* C1: infer_dependencies is total: every call on a parsed structure ends in
\* an {auto_apply, pending_review} result, never in an error, also when a
\* 2-part ID is a numeric prefix of a 3-part ID and their keys get compared.
C1_InferIsTotal == pc = "inferred" => result.status = "returned"

SubsectionEdge(e) ==
    /\ e.confidence = SubsectionConfidence
    /\ HasPrefix(e.reason, "subsection order")

HasSubsectionEdge(b, a) ==
    \E e \in Output : e.from = b /\ e.to = a /\ SubsectionEdge(e)

SameSubsection(a, b) == SubsectionKeyOf[a] = SubsectionKeyOf[b]

\* a and b are neighbours in the sorted list of their subsection: no task
\* of the subsection has a key strictly between theirs (distinct IDs of
\* LinePool have distinct keys)
Adjacent(a, b) ==
    ~\E c \in Ids : SameSubsection(a, c) /\ KeyLess(a, c) /\ KeyLess(c, b)

\* C2: for task IDs a, b with sort_key(a) < sort_key(b) in one subsection,
\* the output holds the edge b -> a with confidence 90 and a subsection
\* order reason iff a and b are adjacent in the sorted list of the
\* subsection; a subsection of a single task yields no such edge.
C2_SubsectionEdgeIffAdjacent ==
    CallReturned =>
       /\ \A a, b \in Ids :
             KeyLess(a, b) /\ SameSubsection(a, b)
                => (HasSubsectionEdge(b, a) <=> Adjacent(a, b))
       /\ \A e \in Output :
             SubsectionEdge(e) =>
                Len(SubsectionTaskIds(Tasks, SubsectionKeyOf[e.from])) >= 2

C2_Witness ==
    /\ CallReturned
    /\ \E a, b, c \in Ids :
          /\ SameSubsection(a, b) /\ SameSubsection(a, c)
          /\ KeyLess(a, c) /\ KeyLess(c, b)
          /\ HasSubsectionEdge(c, a) /\ HasSubsectionEdge(b, c)
          /\ ~HasSubsectionEdge(b, a)

Candidates(e) == SelectSeq(all_deps, LAMBDA c : SameKey(c, e))

MaxConfidence(cands) ==
    CHOOSE m \in {cands[i].confidence : i \in 1..Len(cands)} :
        \A i \in 1..Len(cands) : cands[i].confidence <= m

FirstReaching(cands, m) ==
    cands[CHOOSE i \in 1..Len(cands) :
             /\ cands[i].confidence = m
             /\ \A j \in 1..(i - 1) : cands[j].confidence # m]

\* C3: after the merge each ordered pair (from, to) occurs at most once in
\* the two buckets together; its confidence is the maximum over all
\* candidates the strategies produced for the pair and its reason that of
\* the first candidate reaching the maximum; merging the output again
\* changes nothing.
C3_MergeKeepsFirstMaximum ==
    CallReturned =>
       /\ \A i, j \in 1..Len(Merged) : i # j => ~SameKey(Merged[i], Merged[j])
       /\ \A c \in Range(all_deps) : \E e \in Output : SameKey(e, c)
       /\ \A e \in Output :
             LET cands == Candidates(e)
             IN /\ cands # <<>>
                /\ e.confidence = MaxConfidence(cands)
                /\ e.reason = FirstReaching(cands, MaxConfidence(cands)).reason
       /\ Deduplicate(Merged) = Merged

C3_Witness ==
    /\ CallReturned
    /\ \E c, d \in Range(all_deps) :
          SameKey(c, d) /\ c.confidence > d.confidence
    /\ \E e \in Output :
          \E c \in Range(all_deps) :
             /\ SameKey(c, e) /\ c.confidence = e.confidence
             /\ c.reason # e.reason

\* auto_apply of the same call made with threshold t
AutoApplyAt(unique_deps, t) == Range(Categorize(unique_deps, t).auto_apply)

\* C4: auto_apply shrinks as the threshold grows; a merged edge is in
\* auto_apply exactly when its confidence >= threshold and in pending_review
\* otherwise, so the buckets are disjoint and together are the merged set.
C4_ThresholdPartition ==
    CallReturned =>
       /\ \A e \in Range(result.auto_apply) : e.confidence >= confidence_threshold
       /\ \A e \in Range(result.pending_review) : e.confidence < confidence_threshold
       /\ Range(result.auto_apply) \cap Range(result.pending_review) = {}
       /\ LET unique_deps == Deduplicate(all_deps)
          IN /\ Output = Range(unique_deps)
             /\ Len(Merged) = Len(unique_deps)
             /\ AutoApplyAt(unique_deps, confidence_threshold)
                    = Range(result.auto_apply)
             /\ \A t \in 0..99 :
                   AutoApplyAt(unique_deps, t + 1) \subseteq AutoApplyAt(unique_deps, t)

C4_Witness ==
    /\ CallReturned
    /\ result.pending_review # <<>>
    /\ \E e \in Range(result.auto_apply) : e.confidence = confidence_threshold
    /\ \E e \in Range(result.pending_review) :
          e.confidence = FilePatternConfidence

\* C5: in every ParseResult no identifier is owned by more than one Task:
\* any two Task records, of one Section or of two, have different ids.
C5_TaskIdsUnique ==
    pc # "start" =>
       \A i, j \in 1..Len(Tasks) : i # j => Tasks[i].id # Tasks[j].id

HeaderBefore(i) == \E h \in 1..(i - 1) : content[h].kind = "section"

\* the header whose section_content holds line i
Enclosing(i) ==
    CHOOSE h \in 1..(i - 1) :
        /\ content[h].kind = "section"
        /\ \A k \in (h + 1)..(i - 1) : content[k].kind # "section"

\* the task lines the task loop runs on, in document order
Matched ==
    SelectSeq([i \in 1..Len(content) |-> i],
              LAMBDA i : content[i].kind = "task" /\ HeaderBefore(i))

\* the value of the complexity annotation of a task line, None when absent
ComplexityValue ==
    [l \in PoolTasks |->
        IF l.complexity = None THEN None ELSE Lower(Strip(l.complexity))]

ComplexityWarningFor(w, task_id) ==
    HasPrefix(w, "Task " \o task_id \o " ") /\ Contains(w, "complexity")

LinesOf(task_id, Test(_)) ==
    SelectSeq(Matched, LAMBDA i : content[i].id = task_id /\ Test(content[i]))

InvalidComplexity(l) ==
    ComplexityValue[l] # None /\ ComplexityValue[l] \notin Complexities

MissingOrInvalidComplexity(l) == ComplexityValue[l] \notin Complexities

\* C6 as stated: every matched task line gets a complexity in {low, medium,
\* high}; when the annotation is missing or its value is none of the three,
\* the complexity is medium and a warning naming the task is appended, in
\* the missing and in the invalid case, and no error is recorded.
C6_MissingOrInvalidWarns ==
    pc = "parsed" =>
       /\ Len(Tasks) = Len(Matched)
       /\ \A k \in 1..Len(Matched) :
             /\ Tasks[k].complexity \in Complexities
             /\ MissingOrInvalidComplexity(content[Matched[k]])
                   => /\ Tasks[k].complexity = "medium"
                      /\ \E w \in Range(warnings) :
                            ComplexityWarningFor(w, Tasks[k].id)
       /\ \A e \in Range(errors) : ~Contains(e, "complexity")

\* C6 amended: every matched task line gets a complexity in {low, medium,
\* high}: the annotation's value when it is one of the three, medium when it
\* is missing or invalid; one warning naming the task is appended per line
\* with an invalid value and none for a missing annotation; no error is
\* recorded.
C6_InvalidWarnsMissingSilent ==
    pc = "parsed" =>
       /\ Len(Tasks) = Len(Matched)
       /\ \A k \in 1..Len(Matched) :
             /\ Tasks[k].complexity \in Complexities
             /\ Tasks[k].complexity =
                   IF MissingOrInvalidComplexity(content[Matched[k]])
                   THEN "medium" ELSE ComplexityValue[content[Matched[k]]]
       /\ \A id \in Ids :
             Len(SelectSeq(warnings, LAMBDA w : ComplexityWarningFor(w, id)))
                = Len(LinesOf(id, InvalidComplexity))
       /\ \A e \in Range(errors) : ~Contains(e, "complexity")

C6_Witness ==
    /\ pc = "parsed"
    /\ \E i, j \in Range(Matched) :
          /\ content[i].complexity = None
          /\ InvalidComplexity(content[j])
          /\ content[i].id # content[j].id
          /\ \E w \in Range(warnings) : ComplexityWarningFor(w, content[j].id)
          /\ ~\E w \in Range(warnings) : ComplexityWarningFor(w, content[i].id)

ClearDepends(secs) ==
    [i \in 1..Len(secs) |->
       [secs[i] EXCEPT !.tasks =
           [k \in 1..Len(@) |-> [@[k] EXCEPT !.depends_on = <<>>]]]]

\* C7: the output does not depend on declared dependencies: the same input
\* with other depends_on fields, here all emptied, gives the same
\* auto_apply and pending_review for the same threshold.
C7_DeclaredDependsIgnored ==
    pc = "inferred" =>
       result = infer_dependencies(ClearDepends(sections),
                                   confidence_threshold, hash_order)

C7_Witness ==
    /\ CallReturned
    /\ Output # {}
    /\ \E t \in Range(Tasks) :
          \E d \in Range(t.depends_on) :
             /\ d \in Ids
             /\ ~\E e \in Output : e.from = t.id /\ e.to = d

FilePatternEdge(e) ==
    /\ e.confidence = FilePatternConfidence
    /\ HasPrefix(e.reason, "file pattern")

ShareStem(a, b) ==
    \E ta, tb \in Range(Tasks) :
       /\ ta.id = a /\ tb.id = b
       /\ \E f \in Range(ta.files), g \in Range(tb.files) : StemOf[f] = StemOf[g]

\* C8: infer_from_file_patterns emits a confidence-85 edge from b to a iff
\* a and b are two distinct tasks that reference a file with the same stem
\* and a precedes b by sort_key; one task listing several files of one stem
\* produces no edge on its own.
C8_FilePatternEdgeIffShared ==
    CallReturned =>
       \A a, b \in Ids :
          (\E e \in Range(all_deps) :
                FilePatternEdge(e) /\ e.from = b /\ e.to = a)
             <=> (a # b /\ ShareStem(a, b) /\ KeyLess(a, b))

\* the input C9 is about
WellNumbered ==
    /\ \A i, j \in 1..Len(Tasks) : i # j => Tasks[i].id # Tasks[j].id
    /\ \A i \in 1..Len(sections) :
          \A t \in Range(sections[i].tasks) :
             SortKeyOf[t.id].parts[1] = sections[i].number
    /\ \A i \in 1..(Len(sections) - 1) :
          sections[i].number < sections[i + 1].number

\* C9: when task IDs are pairwise distinct, every task's leading part is
\* its section's number and sections come in strictly increasing number
\* order, every edge of the output has sort_key(to) < sort_key(from), so the
\* inferred graph has no self-edge and no cycle.
C9_EdgesPointBackwards ==
    CallReturned /\ WellNumbered =>
       \A e \in Output : KeyLess(e.to, e.from)

Mismatched(i) ==
    SortKeyOf[content[i].id].parts[1] # ToInt(content[Enclosing(i)].num)

Headers == {i \in 1..Len(content) : content[i].kind = "section"}

\* the task lines between a header and the next one
LinesUnder(h) == SelectSeq(Matched, LAMBDA i : Enclosing(i) = h)

LineIds(lines) == [k \in 1..Len(lines) |-> content[lines[k]].id]

\* the entries of the depends annotation of a task line
DependsOf ==
    [l \in PoolTasks |-> IF l.depends = None THEN <<>> ELSE Entries(l.depends)]

\* the depends_on references that name no task of any section
UnknownRefs ==
    UNION {{<<i, d>> : d \in {d \in 1..Len(DependsOf[content[i]]) :
                                DependsOf[content[i]][d] \notin Range(LineIds(Matched))}}
              : i \in Range(Matched)}

HeaderOrder == SelectSeq([i \in 1..Len(content) |-> i], LAMBDA i : i \in Headers)

\* C10: errors are accumulated: a matched task whose leading part differs
\* from its section's number adds exactly one error and is still appended
\* to that section, all later task lines and sections are parsed in
\* document order, and validate_dependencies adds exactly one error per
\* depends_on reference that is the id of no task of any section; only a
\* document without section header stops the parse, with empty sections and
\* exactly one error.
C10_ErrorsAccumulate ==
    /\ pc # "start" /\ Headers = {} =>
          sections = <<>> /\ Len(errors) = 1
    /\ pc # "start" /\ Headers # {} =>
          /\ Len(sections) = Len(HeaderOrder)
          /\ \A k \in 1..Len(HeaderOrder) :
                /\ sections[k].number = ToInt(content[HeaderOrder[k]].num)
                /\ TaskIds(sections[k].tasks) = LineIds(LinesUnder(HeaderOrder[k]))
    /\ pc = "parsed" /\ Headers # {} =>
          Len(errors) = Cardinality({i \in Range(Matched) : Mismatched(i)})
    /\ pc \in {"validated", "inferred"} /\ Headers # {} =>
          Len(errors) = Cardinality({i \in Range(Matched) : Mismatched(i)})
                          + Cardinality(UnknownRefs)

C10_Witness ==
    /\ pc = "validated"
    /\ \E i, j \in Range(Matched) :
          /\ Mismatched(i)
          /\ Enclosing(i) < Enclosing(j)
          /\ \E d \in 1..Len(DependsOf[content[i]]) :
                DependsOf[content[i]][d] = content[j].id
    /\ UnknownRefs # {}

====
